---- MODULE Spec2Model ----
(***************************************************************************)
(* klipper-toolchanger: the virtual tool endstop.                          *)
(*                                                                         *)
(* klipper/extras/tool_endstop.py   ToolEndstopGlobal (the Coordinator),   *)
(*                                  EndstopRouter (the Router),            *)
(*                                  ToolEndstop (the per-tool entry)       *)
(* klipper/extras/tool_x_endstop.py the same three classes for the X axis  *)
(*                                                                         *)
(* One instance (one axis group) is modelled at a time; `axis` says which  *)
(* of the two files the instance was built from.  Object references are    *)
(* integers: a ToolEndstop object is its index in `objs`, an MCU endstop   *)
(* (the physical endstop made by mcu.setup_pin) is the index of the        *)
(* ToolEndstop that created it, and None is 0.                             *)
(***************************************************************************)
EXTENDS Integers, Sequences, FiniteSets, TLC

VARIABLES
    axis,               \* "tool_endstop" | "tool_x_endstop": the file of the instance
    py,                 \* 2 | 3: the interpreter that runs klippy
    objs,               \* every ToolEndstop object constructed, in construction order
    tool_endstops,      \* ToolEndstopGlobal.tool_endstops: entry refs in insertion order
    last_query,         \* ToolEndstopGlobal.last_query: tool number -> triggered
    active_endstop,     \* ToolEndstopGlobal.active_endstop: entry ref or None
    active_tool_number, \* ToolEndstopGlobal.active_tool_number
    toolhead,           \* whether ToolEndstopGlobal.toolhead has been assigned
    active_mcu,         \* EndstopRouter.active_mcu: physical ref or None
    wrap,               \* EndstopRouter.get_mcu/home_start/home_wait/query_endstop
    mcus,               \* EndstopRouter._mcus
    steppers,           \* EndstopRouter._steppers
    bound,              \* bound[p][s]: number of p.add_stepper(s) calls made so far
    homing,             \* the physical endstop whose home_start awaits its home_wait
    last                \* the outcome of the last operation, as its caller sees it

vars == <<axis, py, objs, tool_endstops, last_query, active_endstop,
          active_tool_number, toolhead, active_mcu, wrap, mcus, steppers,
          bound, homing, last>>

\* Bounds of the model.
MaxObjects == 2
MaxTool == 0
MaxSteppers == 1

\* Python's None, as an object reference.
None == 0
\* The sentinel of active_tool_number.
NoTool == -1

ToolNumbers == NoTool..MaxTool
ObjIds == 1..MaxObjects
StepperIds == 1..MaxSteppers
Wrappers == {"get_mcu", "home_start", "home_wait", "query_endstop"}
Readings == {"triggered", "open", "error"}

NoMsg == [text |-> "", args |-> << >>]

\* What an operation's caller observes, and what the operation did to its
\* collaborators: calls counts its EndstopRouter.set_active_mcu invocations,
\* queried lists the physical endstops it sent query_endstop to, in order,
\* candidates is what its _query_open_tools returned, and started is, for a
\* home_wait, the physical endstop that received the home_start before it.
Outcome(op, arg, result, readings, msg, target, ret) ==
    [op |-> op, arg |-> arg, result |-> result, readings |-> readings,
     msg |-> msg, target |-> target, ret |-> ret,
     calls |-> 0, queried |-> << >>, candidates |-> << >>, started |-> None]

--------------------------------------------------------------------------
\* The registry, seen as a dict keyed by tool number.

RegisteredTools == {objs[tool_endstops[i]].tool : i \in 1..Len(tool_endstops)}

\* The slot of an int key in a Python 2 dict that has not grown (8 slots):
\* hash(i) = i except hash(-1) = -2, and the slot is hash & 7.  Distinct for
\* the keys -1..5, which covers ToolNumbers.
Slot(tool) == (IF tool = -1 THEN -2 ELSE tool) % 8

\* self.tool_endstops[tool] = entry for a new key, as tool_endstops.values()
\* then iterates: in insertion order under Python 3, in slot order under
\* Python 2.
dict_setitem(tool, entry) ==
    IF py = 3
    THEN Append(tool_endstops, entry)
    ELSE LET before == Cardinality({i \in 1..Len(tool_endstops) :
                          Slot(objs[tool_endstops[i]].tool) < Slot(tool)})
         IN  SubSeq(tool_endstops, 1, before) \o <<entry>>
                \o SubSeq(tool_endstops, before + 1, Len(tool_endstops))

\* self.tool_endstops[tool_nr]
Lookup(tool_nr) ==
    tool_endstops[CHOOSE i \in 1..Len(tool_endstops) :
                    objs[tool_endstops[i]].tool = tool_nr]

--------------------------------------------------------------------------
\* EndstopRouter

\* EndstopRouter.on_error
on_error ==
    IF axis = "tool_endstop"
    THEN [text |-> "Cannot interact with endstop - no active tool endstop.",
          args |-> << >>]
    ELSE [text |-> "Cannot interact with X endstop - no active tool X endstop.",
          args |-> << >>]

\* set_active_mcu that forgets to rebind home_wait.
set_active_mcu_stale_home_wait(mcu_endstop) ==
    [active_mcu |-> mcu_endstop,
     wrap |-> [w \in Wrappers |->
                 IF w = "home_wait" THEN wrap[w]
                 ELSE IF mcu_endstop # None THEN mcu_endstop ELSE None]]

\* set_active_mcu that rebinds the wrappers only when given an endstop.
set_active_mcu_keeps_on_none(mcu_endstop) ==
    [active_mcu |-> mcu_endstop,
     wrap |-> IF mcu_endstop # None
              THEN [w \in Wrappers |-> mcu_endstop]
              ELSE wrap]

\* set_active_mcu that leaves home_wait on on_error.
set_active_mcu_home_wait_unbound(mcu_endstop) ==
    [active_mcu |-> mcu_endstop,
     wrap |-> [w \in Wrappers |->
                 IF w = "home_wait" THEN None
                 ELSE IF mcu_endstop # None THEN mcu_endstop ELSE None]]

\* EndstopRouter.set_active_mcu: the router's activation state after the call.
\* A wrapper holds the physical endstop whose bound method it is, or None for
\* self.on_error.
set_active_mcu(mcu_endstop) ==
    [active_mcu |-> mcu_endstop,
     wrap |-> [w \in Wrappers |->
                 IF mcu_endstop # None THEN mcu_endstop ELSE None]]

\* add_mcu that puts the new endstop first.
add_mcu_list_prepends(mcu_endstop) == <<mcu_endstop>> \o mcus

\* EndstopRouter.add_mcu: _mcus after self._mcus.append(mcu_endstop).
add_mcu_list(mcu_endstop) == Append(mcus, mcu_endstop)

\* add_mcu that only appends, without binding the steppers already known.
add_mcu_no_binding(mcu_endstop) == bound

\* EndstopRouter.add_mcu: bound after mcu_endstop.add_stepper(s) for s in _steppers.
add_mcu(mcu_endstop) ==
    [p \in ObjIds |-> [s \in StepperIds |->
        IF p = mcu_endstop
        THEN bound[p][s] + Cardinality({i \in 1..Len(steppers) : steppers[i] = s})
        ELSE bound[p][s]]]

\* EndstopRouter.add_stepper: bound after m.add_stepper(stepper) for m in _mcus.
add_stepper(stepper) ==
    [p \in ObjIds |-> [s \in StepperIds |->
        IF s = stepper
        THEN bound[p][s] + Cardinality({i \in 1..Len(mcus) : mcus[i] = p})
        ELSE bound[p][s]]]

--------------------------------------------------------------------------
\* ToolEndstopGlobal

\* The activation state: what set_active_endstop reads and writes.
Activation ==
    [active_endstop |-> active_endstop,
     active_tool_number |-> active_tool_number,
     active_mcu |-> active_mcu,
     wrap |-> wrap]

\* An operation that leaves the activation state alone and never calls
\* EndstopRouter.set_active_mcu.
NoActivation ==
    [active_endstop |-> active_endstop,
     active_tool_number |-> active_tool_number,
     active_mcu |-> active_mcu,
     wrap |-> wrap,
     calls |-> 0]

\* set_active_endstop that returns early whenever some endstop is active.
set_active_endstop_keeps_first(tool_endstop) ==
    IF active_endstop # None \/ tool_endstop = None
    THEN NoActivation
    ELSE [active_endstop |-> tool_endstop,
          active_tool_number |-> objs[tool_endstop].tool,
          active_mcu |-> objs[tool_endstop].mcu_endstop,
          wrap |-> [w \in Wrappers |-> objs[tool_endstop].mcu_endstop],
          calls |-> 1]

\* set_active_endstop without its early return.
set_active_endstop_no_guard(tool_endstop) ==
    IF tool_endstop # None
    THEN [active_endstop |-> tool_endstop,
          active_tool_number |-> objs[tool_endstop].tool,
          active_mcu |-> objs[tool_endstop].mcu_endstop,
          wrap |-> [w \in Wrappers |-> objs[tool_endstop].mcu_endstop],
          calls |-> 1]
    ELSE [active_endstop |-> None,
          active_tool_number |-> NoTool,
          active_mcu |-> None,
          wrap |-> [w \in Wrappers |-> None],
          calls |-> 1]

\* ToolEndstopGlobal.set_active_endstop: the activation state after the call,
\* and the number of EndstopRouter.set_active_mcu calls it made.
set_active_endstop(tool_endstop) ==
    IF active_endstop = tool_endstop
    THEN NoActivation
    ELSE IF tool_endstop # None
    THEN LET r == set_active_mcu(objs[tool_endstop].mcu_endstop)
         IN  [active_endstop |-> tool_endstop,
              active_tool_number |-> objs[tool_endstop].tool,
              active_mcu |-> r.active_mcu,
              wrap |-> r.wrap,
              calls |-> 1]
    ELSE LET r == set_active_mcu(None)
         IN  [active_endstop |-> None,
              active_tool_number |-> NoTool,
              active_mcu |-> r.active_mcu,
              wrap |-> r.wrap,
              calls |-> 1]

Activate(a) ==
    /\ active_endstop' = a.active_endstop
    /\ active_tool_number' = a.active_tool_number
    /\ active_mcu' = a.active_mcu
    /\ wrap' = a.wrap

\* The index of the first physical endstop whose query raises, or 0.
FirstError(readings) ==
    IF \E i \in 1..Len(readings) : readings[i] = "error"
    THEN CHOOSE i \in 1..Len(readings) :
            /\ readings[i] = "error"
            /\ \A j \in 1..(i - 1) : readings[j] # "error"
    ELSE 0

\* _query_open_tools without self.last_query.clear().
_query_open_tools_no_clear(readings) ==
    LET f == FirstError(readings)
        n == IF f = 0 THEN Len(tool_endstops) ELSE f - 1
        probed == {tool_endstops[i] : i \in 1..n}
        fresh == [t \in {objs[e].tool : e \in probed} |->
                    LET i == CHOOSE i \in 1..n :
                                objs[tool_endstops[i]].tool = t
                    IN  readings[i] = "triggered"]
    IN  [queried |-> [i \in 1..(IF f = 0 THEN n ELSE f) |->
                        objs[tool_endstops[i]].mcu_endstop],
         last_query |-> fresh @@ last_query,
         candidates |-> SelectSeq(SubSeq(tool_endstops, 1, n),
                           LAMBDA e :
                             \E i \in 1..n : /\ tool_endstops[i] = e
                                             /\ readings[i] = "open"),
         raised |-> f # 0]

\* _query_open_tools that collects the triggered endstops instead.
_query_open_tools_triggered(readings) ==
    LET f == FirstError(readings)
        n == IF f = 0 THEN Len(tool_endstops) ELSE f - 1
        probed == {tool_endstops[i] : i \in 1..n}
    IN  [queried |-> [i \in 1..(IF f = 0 THEN n ELSE f) |->
                        objs[tool_endstops[i]].mcu_endstop],
         last_query |-> [t \in {objs[e].tool : e \in probed} |->
                           LET i == CHOOSE i \in 1..n :
                                       objs[tool_endstops[i]].tool = t
                           IN  readings[i] = "triggered"],
         candidates |-> SelectSeq(SubSeq(tool_endstops, 1, n),
                           LAMBDA e :
                             \E i \in 1..n : /\ tool_endstops[i] = e
                                             /\ readings[i] = "triggered"),
         raised |-> f # 0]

\* _query_open_tools that catches a failing query and counts the endstop as
\* not triggered.
_query_open_tools_swallows(readings) ==
    LET n == Len(tool_endstops)
    IN  [queried |-> [i \in 1..n |-> objs[tool_endstops[i]].mcu_endstop],
         last_query |-> [t \in RegisteredTools |->
                           LET i == CHOOSE i \in 1..n :
                                       objs[tool_endstops[i]].tool = t
                           IN  readings[i] = "triggered"],
         candidates |-> SelectSeq(tool_endstops,
                           LAMBDA e :
                             \E i \in 1..n : /\ tool_endstops[i] = e
                                             /\ readings[i] # "triggered"),
         raised |-> FALSE]

\* ToolEndstopGlobal._query_open_tools, given what each physical endstop's
\* query_endstop answers (readings[i] for the i-th entry of the registry):
\* the new last_query, the candidates, whether a query raised, and the
\* physical endstops that were sent query_endstop, in order.
_query_open_tools(readings) ==
    LET f == FirstError(readings)
        n == IF f = 0 THEN Len(tool_endstops) ELSE f - 1
        probed == {tool_endstops[i] : i \in 1..n}
    IN  [queried |-> [i \in 1..(IF f = 0 THEN n ELSE f) |->
                        objs[tool_endstops[i]].mcu_endstop],
         last_query |-> [t \in {objs[e].tool : e \in probed} |->
                           LET i == CHOOSE i \in 1..n :
                                       objs[tool_endstops[i]].tool = t
                           IN  readings[i] = "triggered"],
         candidates |-> SelectSeq(SubSeq(tool_endstops, 1, n),
                           LAMBDA e :
                             \E i \in 1..n : /\ tool_endstops[i] = e
                                             /\ readings[i] = "open"),
         raised |-> f # 0]

\* "%s" % map(lambda p: p.name, candidates): a list's repr under Python 2,
\* a map object's repr under Python 3.
MapRepr(candidates) ==
    IF py = 2
    THEN <<"list">> \o [i \in 1..Len(candidates) |-> objs[candidates[i]].name]
    ELSE <<"map object">>

\* ToolEndstopGlobal._describe_tool_detection_issue
_describe_tool_detection_issue(candidates) ==
    IF Len(candidates) = 1
    THEN [text |-> "OK", args |-> << >>]
    ELSE IF Len(candidates) = 0
    THEN [text |-> IF axis = "tool_endstop" THEN "All endstops triggered"
                   ELSE "All X endstops triggered",
          args |-> << >>]
    ELSE [text |-> IF axis = "tool_endstop"
                   THEN "Multiple endstops not triggered: %s"
                   ELSE "Multiple X endstops not triggered: %s",
          args |-> MapRepr(candidates)]

\* add_endstop without the duplicate check.
add_endstop_no_check(tool) == FALSE

\* ToolEndstopGlobal.add_endstop: whether the registration is rejected.
add_endstop_duplicate(tool) == tool \in RegisteredTools

\* _detect_active_tool that deselects when detection is not unique.
_detect_active_tool_deselects(active_tools) ==
    IF Len(active_tools) = 1
    THEN set_active_endstop(active_tools[1])
    ELSE set_active_endstop(None)

\* ToolEndstopGlobal._detect_active_tool: the activation state after detection.
_detect_active_tool(active_tools) ==
    IF Len(active_tools) = 1
    THEN set_active_endstop(active_tools[1])
    ELSE NoActivation

\* The DETECT command without its deselecting branch.
detect_activation_keeps(active_tools) ==
    IF Len(active_tools) = 1
    THEN set_active_endstop(active_tools[1])
    ELSE NoActivation

\* cmd_DETECT_ACTIVE_TOOL_ENDSTOP: the activation state after the command.
detect_activation(active_tools) ==
    IF Len(active_tools) = 1
    THEN set_active_endstop(active_tools[1])
    ELSE set_active_endstop(None)

\* cmd_DETECT_ACTIVE_TOOL_ENDSTOP: what gcmd.respond_info is given.
detect_message(active_tools) ==
    IF Len(active_tools) = 1
    THEN [text |-> IF axis = "tool_endstop"
                   THEN "Found active tool endstop: %s"
                   ELSE "Found active tool X endstop: %s",
          args |-> <<objs[active_tools[1]].name>>]
    ELSE _describe_tool_detection_issue(active_tools)

\* SET_ACTIVE that deselects before it reports an unknown tool.
select_activation_clears(tool_nr) ==
    IF tool_nr \notin RegisteredTools
    THEN set_active_endstop(None)
    ELSE set_active_endstop(Lookup(tool_nr))

\* cmd_SET_ACTIVE_TOOL_ENDSTOP: the activation state after the command.
select_activation(tool_nr) ==
    IF tool_nr \notin RegisteredTools
    THEN NoActivation
    ELSE set_active_endstop(Lookup(tool_nr))

\* cmd_SET_ACTIVE_TOOL_ENDSTOP: the text of gcmd.error for an unknown tool.
select_error(tool_nr) ==
    [text |-> IF axis = "tool_endstop"
              THEN "SET_ACTIVE_TOOL_ENDSTOP no tool endstop for tool %d"
              ELSE "SET_ACTIVE_TOOL_X_ENDSTOP no tool X endstop for tool %d",
     args |-> <<ToString(tool_nr)>>]

--------------------------------------------------------------------------
Init ==
    /\ axis \in {"tool_endstop", "tool_x_endstop"}
    /\ py \in {2, 3}
    /\ objs = << >>
    /\ tool_endstops = << >>
    /\ last_query = << >>
    /\ active_endstop = None
    /\ active_tool_number = NoTool
    /\ toolhead = FALSE
    /\ active_mcu = None
    /\ wrap = [w \in Wrappers |-> None]
    /\ mcus = << >>
    /\ steppers = << >>
    /\ bound = [p \in ObjIds |-> [s \in StepperIds |-> 0]]
    /\ homing = None
    /\ last = Outcome("init", 0, "ok", << >>, NoMsg, None, "none")

\* ToolEndstop.__init__ for a config section with `tool: tool`: builds the
\* entry and its physical endstop, then global_endstop.add_endstop(config, self).
Register(tool) ==
    /\ Len(objs) < MaxObjects
    /\ LET k == Len(objs) + 1
           e == [tool |-> tool, name |-> ToString(k), mcu_endstop |-> k]
       IN  /\ objs' = Append(objs, e)
           /\ IF add_endstop_duplicate(tool)
              THEN /\ last' = Outcome("register", tool, "config_error", << >>,
                                      NoMsg, None, "none")
                   /\ UNCHANGED <<tool_endstops, mcus, bound>>
              ELSE /\ tool_endstops' = dict_setitem(tool, k)
                   /\ mcus' = add_mcu_list(e.mcu_endstop)
                   /\ bound' = add_mcu(e.mcu_endstop)
                   /\ last' = Outcome("register", tool, "ok", << >>,
                                      NoMsg, None, "none")
    /\ UNCHANGED <<homing, axis, py, last_query, active_endstop, active_tool_number,
                   toolhead, active_mcu, wrap, steppers>>

\* EndstopRouter.add_stepper, called by the rail that homes against the pin.
\* Each call brings a stepper object not seen before: the next one.
AddStepper(stepper) ==
    /\ stepper = Len(steppers) + 1
    /\ steppers' = Append(steppers, stepper)
    /\ bound' = add_stepper(stepper)
    /\ last' = Outcome("add_stepper", stepper, "ok", << >>, NoMsg, None, "none")
    /\ UNCHANGED <<homing, axis, py, objs, tool_endstops, last_query, active_endstop,
                   active_tool_number, toolhead, active_mcu, wrap, mcus>>

\* ToolEndstopGlobal._handle_connect
HandleConnect(readings) ==
    /\ toolhead' = TRUE
    /\ \E q \in {_query_open_tools(readings)} :
           /\ last_query' = q.last_query
           /\ IF q.raised
              THEN /\ UNCHANGED <<active_endstop, active_tool_number,
                                  active_mcu, wrap>>
                   /\ last' = [Outcome("connect", 0, "probe_error", readings,
                                       NoMsg, None, "none")
                               EXCEPT !.queried = q.queried]
              ELSE \E a \in {_detect_active_tool(q.candidates)} :
                   /\ Activate(a)
                   /\ last' = [Outcome("connect", 0, "ok", readings,
                                       NoMsg, None, "none")
                               EXCEPT !.calls = a.calls,
                                      !.queried = q.queried,
                                      !.candidates = q.candidates]
    /\ UNCHANGED <<homing, axis, py, objs, tool_endstops, mcus, steppers, bound>>

\* ToolEndstopGlobal.cmd_SET_ACTIVE_TOOL_ENDSTOP with T=tool_nr
CmdSetActive(tool_nr) ==
    /\ \E a \in {select_activation(tool_nr)} :
           /\ Activate(a)
           /\ IF tool_nr \notin RegisteredTools
              THEN last' = Outcome("SET_ACTIVE", tool_nr, "command_error",
                                   << >>, select_error(tool_nr), None, "none")
              ELSE last' = [Outcome("SET_ACTIVE", tool_nr, "ok", << >>, NoMsg,
                                    None, "none")
                            EXCEPT !.calls = a.calls]
    /\ UNCHANGED <<homing, axis, py, objs, tool_endstops, last_query, toolhead, mcus,
                   steppers, bound>>

\* ToolEndstopGlobal.cmd_DETECT_ACTIVE_TOOL_ENDSTOP
CmdDetect(readings) ==
    /\ IF ~toolhead
       THEN \* self.toolhead is not assigned before klippy:connect
            /\ readings = << >>
            /\ last' = Outcome("DETECT", 0, "attribute_error", << >>, NoMsg,
                               None, "none")
            /\ UNCHANGED <<last_query, active_endstop, active_tool_number,
                           active_mcu, wrap>>
       ELSE /\ Len(readings) = Len(tool_endstops)
            /\ \E q \in {_query_open_tools(readings)} :
                /\ last_query' = q.last_query
                /\ IF q.raised
                   THEN /\ UNCHANGED <<active_endstop, active_tool_number,
                                       active_mcu, wrap>>
                        /\ last' = [Outcome("DETECT", 0, "probe_error",
                                            readings, NoMsg, None, "none")
                                    EXCEPT !.queried = q.queried]
                   ELSE \E a \in {detect_activation(q.candidates)} :
                        /\ Activate(a)
                        /\ last' = [Outcome("DETECT", 0, "ok", readings,
                                            detect_message(q.candidates),
                                            None, "none")
                                    EXCEPT !.calls = a.calls,
                                           !.queried = q.queried,
                                           !.candidates = q.candidates]
    /\ UNCHANGED <<homing, axis, py, objs, tool_endstops, toolhead, mcus, steppers,
                   bound>>

\* router.get_mcu / home_start / home_wait / query_endstop called by the
\* motion layer: whatever set_active_mcu last stored in that attribute.
RouterForward(w) ==
    /\ IF wrap[w] = None
       THEN last' = [Outcome(w, 0, "command_error", << >>, on_error, None,
                             "none")
                     EXCEPT !.started = IF w = "home_wait" THEN homing ELSE None]
       ELSE last' = [Outcome(w, 0, "ok", << >>, NoMsg, wrap[w], "forwarded")
                     EXCEPT !.started = IF w = "home_wait" THEN homing ELSE None]
    /\ UNCHANGED <<axis, py, objs, tool_endstops, last_query, active_endstop,
                   active_tool_number, toolhead, active_mcu, wrap, mcus,
                   steppers, bound>>

\* A router call on its own, outside any homing move.
RouterCall(w) ==
    /\ RouterForward(w)
    /\ UNCHANGED homing

\* The router calls of a homing move: a forwarded home_start leaves its
\* endstop waiting for the home_wait of the same move, and the next home_wait
\* call ends that wait.
HomingCall(w) ==
    /\ w \in {"home_start", "home_wait"}
    /\ RouterForward(w)
    /\ homing' = IF w = "home_start" THEN wrap[w] ELSE None

\* EndstopRouter.get_position_endstop; XEndstopRouter defines no such method.
get_position_endstop ==
    IF axis # "tool_endstop"
    THEN Outcome("get_position_endstop", 0, "attribute_error", << >>, NoMsg,
                 None, "none")
    ELSE IF active_mcu = None
    THEN Outcome("get_position_endstop", 0, "ok", << >>, NoMsg, None, "0.0")
    ELSE Outcome("get_position_endstop", 0, "ok", << >>, NoMsg, active_mcu,
                 "forwarded")

GetPositionEndstop ==
    /\ last' = get_position_endstop
    /\ UNCHANGED <<homing, axis, py, objs, tool_endstops, last_query, active_endstop,
                   active_tool_number, toolhead, active_mcu, wrap, mcus,
                   steppers, bound>>

\* ToolEndstopGlobal._describe_tool_detection_issue called with the entries of
\* the registry that `readings` marks open, in the registry's iteration order.
DescribeIssue(readings) ==
    /\ LET candidates ==
              SelectSeq(tool_endstops,
                  LAMBDA e : \E i \in 1..Len(tool_endstops) :
                                /\ tool_endstops[i] = e
                                /\ readings[i] = "open")
       IN  last' = [Outcome("describe", 0, "ok", readings,
                            _describe_tool_detection_issue(candidates),
                            None, "none")
                    EXCEPT !.candidates = candidates]
    /\ UNCHANGED <<homing, axis, py, objs, tool_endstops, last_query, active_endstop,
                   active_tool_number, toolhead, active_mcu, wrap, mcus,
                   steppers, bound>>

\* One query_endstop answer per registry entry.  A raising query ends the
\* probe, so the entries after it are never asked: they read "error" too.
ReadingsTable ==
    [n \in 0..MaxObjects |->
        {r \in [1..n -> Readings] :
            \A i \in 1..n : r[i] = "error" => \A j \in i..n : r[j] = "error"}]

ReadingsFor(n) == ReadingsTable[n]

Next ==
    \/ \E tool \in ToolNumbers : Register(tool)
    \/ \E stepper \in StepperIds : AddStepper(stepper)
    \/ \E readings \in ReadingsFor(Len(tool_endstops)) : HandleConnect(readings)
    \/ \E tool_nr \in ToolNumbers : CmdSetActive(tool_nr)
    \/ \E readings \in ReadingsFor(Len(tool_endstops)) \cup {<< >>} :
          CmdDetect(readings)
    \/ \E w \in Wrappers : RouterCall(w)
    \/ GetPositionEndstop

Spec == Init /\ [][Next]_vars

\* Detection and its diagnostic: registrations, probes at connect and on
\* DETECT, and the message for every way the registry's endstops can read.
NextDescribe ==
    \/ \E tool \in ToolNumbers : Register(tool)
    \/ \E readings \in ReadingsFor(Len(tool_endstops)) : HandleConnect(readings)
    \/ \E readings \in ReadingsFor(Len(tool_endstops)) \cup {<< >>} :
          CmdDetect(readings)
    \/ \E readings \in [1..Len(tool_endstops) -> {"triggered", "open"}] :
          DescribeIssue(readings)

SpecDescribe == Init /\ [][NextDescribe]_vars

\* The homing protocol: registrations, selections and detections interleaved
\* with the home_start / home_wait calls of homing moves.
NextHoming ==
    \/ \E tool \in ToolNumbers : Register(tool)
    \/ \E readings \in ReadingsFor(Len(tool_endstops)) : HandleConnect(readings)
    \/ \E tool_nr \in ToolNumbers : CmdSetActive(tool_nr)
    \/ \E readings \in ReadingsFor(Len(tool_endstops)) \cup {<< >>} :
          CmdDetect(readings)
    \/ \E w \in Wrappers : HomingCall(w)

SpecHoming == Init /\ [][NextHoming]_vars

--------------------------------------------------------------------------
\* Properties.

\* The registry entries a probe found not triggered.
OpenEntries(readings) ==
    {tool_endstops[i] : i \in {j \in 1..Len(readings) : readings[j] = "open"}}

\* A probe that ran to its end: one answer per registered entry, none raised.
ProbeCompleted(o) ==
    /\ o.result # "attribute_error"
    /\ Len(o.readings) = Len(tool_endstops)
    /\ \A i \in 1..Len(o.readings) : o.readings[i] # "error"

\* The state ActiveOnTool of entry e, router included.
ActiveOn(e) ==
    /\ active_endstop = e
    /\ active_tool_number = objs[e].tool
    /\ active_mcu = objs[e].mcu_endstop
    /\ \A w \in Wrappers : wrap[w] = objs[e].mcu_endstop

\* The state NoneActive, router included.
NoneActive ==
    /\ active_endstop = None
    /\ active_tool_number = -1
    /\ active_mcu = None
    /\ \A w \in Wrappers : wrap[w] = None

\* C1: the Router's active physical endstop is the physical endstop of the
\* Coordinator's active entry (or both are absent), every forwarding wrapper
\* of the Router points at it, and a forwarded call reached exactly it.
C1_RouterMirrorsCoordinator ==
    /\ active_mcu = IF active_endstop = None THEN None
                    ELSE objs[active_endstop].mcu_endstop
    /\ \A w \in Wrappers : wrap[w] = active_mcu
    /\ last.op \in Wrappers =>
          /\ last.target = active_mcu
          /\ (active_endstop # None => last.result = "ok")

C1_Witness ==
    /\ last.op = "home_wait"
    /\ last.result = "ok"
    /\ last.target = 2
    /\ active_endstop = 2
    /\ Len(tool_endstops) = 2
    /\ toolhead

\* C2: active_tool_number is -1 exactly when there is no active entry; with
\* an active entry it is that entry's tool number, a key of the registry.
C2_SentinelIffNoActiveEntry ==
    /\ (active_tool_number = -1) <=> (active_endstop = None)
    /\ active_endstop # None =>
          /\ active_tool_number = objs[active_endstop].tool
          /\ active_tool_number \in RegisteredTools

\* C3: connect-time detection whose probe completes activates the entry when
\* exactly one is not triggered, and otherwise leaves the activation state
\* (active_tool_number, active entry, Router) exactly as it was.
C3_ConnectDetect ==
    [][ (last'.op = "connect" /\ ProbeCompleted(last')) =>
          IF Cardinality(OpenEntries(last'.readings)) = 1
          THEN \E e \in OpenEntries(last'.readings) : ActiveOn(e)'
          ELSE Activation' = Activation ]_vars

C3_Witness ==
    /\ last.op = "connect"
    /\ last.readings = <<"open", "open">>
    /\ active_endstop # None

\* C4: the DETECT command whose probe completes activates the only entry not
\* triggered and reports it found by name; with none or several it forces
\* NoneActive and completes normally with a diagnostic message.
C4_ExplicitDetect ==
    (last.op = "DETECT" /\ ProbeCompleted(last)) =>
        /\ last.result = "ok"
        /\ IF Cardinality(OpenEntries(last.readings)) = 1
           THEN \E e \in OpenEntries(last.readings) :
                   /\ ActiveOn(e)
                   /\ last.msg.args = <<objs[e].name>>
                   /\ last.msg.text =
                         IF axis = "tool_endstop"
                         THEN "Found active tool endstop: %s"
                         ELSE "Found active tool X endstop: %s"
           ELSE /\ NoneActive
                /\ last.msg.text \in
                      IF Cardinality(OpenEntries(last.readings)) = 0
                      THEN {"All endstops triggered",
                            "All X endstops triggered"}
                      ELSE {"Multiple endstops not triggered: %s",
                            "Multiple X endstops not triggered: %s"}

C4_Witness ==
    /\ last.op = "DETECT"
    /\ last.readings = <<"open", "open">>
    /\ last.result = "ok"
    /\ active_tool_number = -1

\* C5: with no endstop active, query, home_start, home_wait and get_mcu fail
\* with a command error, reach no physical endstop and change nothing; with
\* an endstop active (after a later select) the same calls succeed.
C5_NoActiveFailsCleanly ==
    [][ last'.op \in Wrappers =>
          /\ (active_endstop = None =>
                /\ last'.result = "command_error"
                /\ last'.target = None
                /\ last'.msg.text \in
                      {"Cannot interact with endstop - no active tool endstop.",
                       "Cannot interact with X endstop - no active tool X endstop."})
          /\ (active_endstop # None => last'.result = "ok")
          /\ UNCHANGED <<objs, tool_endstops, last_query, active_endstop,
                         active_tool_number, toolhead, active_mcu, wrap,
                         mcus, steppers, bound>> ]_vars

C5_Witness ==
    /\ last.op = "home_start"
    /\ last.result = "command_error"
    /\ Len(tool_endstops) = 2
    /\ toolhead
    /\ last_query # << >>

\* C6: in each axis instance get_position_endstop returns 0.0 without failing
\* when no physical endstop is active, and the active one's position otherwise.
C6_PositionEndstop ==
    last.op = "get_position_endstop" =>
        /\ last.result = "ok"
        /\ IF active_mcu = None
           THEN last.ret = "0.0" /\ last.target = None
           ELSE last.ret = "forwarded" /\ last.target = active_mcu

\* C7: every physical endstop of the Router has been bound to every stepper
\* of the Router exactly once, whichever was registered first; nothing else
\* has been bound.
C7_CrossProductBoundOnce ==
    \A p \in ObjIds : \A s \in StepperIds :
        bound[p][s] =
            IF /\ \E i \in 1..Len(mcus) : mcus[i] = p
               /\ \E j \in 1..Len(steppers) : steppers[j] = s
            THEN 1 ELSE 0

C7_Witness ==
    /\ last.op = "register"
    /\ last.result = "ok"
    /\ Len(mcus) = 2
    /\ Len(steppers) = 1
    /\ bound[1][steppers[1]] = 1
    /\ bound[2][steppers[1]] = 1

\* C8: registering a tool number that is already in the registry fails with
\* a configuration error, leaves the registry as it was and adds nothing to
\* the Router.
C8_DuplicateRejected ==
    [][ (last'.op = "register" /\ last'.arg \in RegisteredTools) =>
          /\ last'.result = "config_error"
          /\ tool_endstops' = tool_endstops
          /\ \A i \in 1..Len(tool_endstops) :
                objs'[tool_endstops[i]] = objs[tool_endstops[i]]
          /\ mcus' = mcus
          /\ bound' = bound ]_vars

C8_Witness ==
    /\ last.op = "register"
    /\ last.result = "config_error"
    /\ Len(tool_endstops) = 1
    /\ Len(objs) = 2
    /\ Len(mcus) = 1

\* C9: SET_ACTIVE with a tool number that is not registered fails with a
\* command error naming the tool and leaves the activation state unchanged.
C9_UnknownToolRejected ==
    [][ (last'.op = "SET_ACTIVE" /\ last'.arg \notin RegisteredTools) =>
          /\ last'.result = "command_error"
          /\ last'.msg.text \in
                {"SET_ACTIVE_TOOL_ENDSTOP no tool endstop for tool %d",
                 "SET_ACTIVE_TOOL_X_ENDSTOP no tool X endstop for tool %d"}
          /\ last'.msg.args = <<ToString(last'.arg)>>
          /\ Activation' = Activation ]_vars

C9_Witness ==
    /\ last.op = "SET_ACTIVE"
    /\ last.result = "command_error"
    /\ active_endstop # None
    /\ active_mcu # None

\* C10: SET_ACTIVE with a registered tool number n ends in ActiveOnTool(n),
\* the Router's active physical endstop being that of the entry registered
\* under n, whatever was active before.
C10_SelectActivates ==
    (last.op = "SET_ACTIVE" /\ last.arg \in RegisteredTools) =>
        /\ last.result = "ok"
        /\ active_tool_number = last.arg
        /\ \E i \in 1..Len(tool_endstops) :
              /\ objs[tool_endstops[i]].tool = last.arg
              /\ ActiveOn(tool_endstops[i])

C10_Witness ==
    /\ last.op = "SET_ACTIVE"
    /\ last.result = "ok"
    /\ Len(tool_endstops) = 2
    /\ active_endstop = 1
    /\ last_query # << >>
    /\ \E t \in DOMAIN last_query : ~last_query[t] /\ t # active_tool_number

\* The physical endstops of a probe that answered: those before the first
\* query that raised.
Answered(readings) ==
    {i \in 1..Len(readings) : \A j \in 1..i : readings[j] # "error"}

\* An operation during which _query_open_tools ran.
ProbeRan(o) ==
    /\ o.op \in {"connect", "DETECT"}
    /\ o.result # "attribute_error"
    /\ Len(o.readings) = Len(tool_endstops)

\* The entries a probe found not triggered, in the registry's iteration order.
OpenInOrder(readings) ==
    SelectSeq(tool_endstops, LAMBDA e : e \in OpenEntries(readings))

\* C11: after every probe the keys of last_query are exactly the tool numbers
\* probed in that call (all registered ones when no query raised), each mapped
\* to that call's answer; nothing of an earlier probe is left.
C11_LastQueryOverwritten ==
    ProbeRan(last) =>
        /\ DOMAIN last_query =
              {objs[tool_endstops[i]].tool : i \in Answered(last.readings)}
        /\ \A i \in Answered(last.readings) :
              last_query[objs[tool_endstops[i]].tool]
                 = (last.readings[i] = "triggered")
        /\ (\A i \in 1..Len(last.readings) : last.readings[i] # "error")
              => DOMAIN last_query = RegisteredTools

C11_Witness ==
    /\ last.op = "DETECT"
    /\ last.readings = <<"triggered", "open">>
    /\ Cardinality(DOMAIN last_query) = 2
    /\ \E t \in DOMAIN last_query : last_query[t]
    /\ \E t \in DOMAIN last_query : ~last_query[t]

\* C12: the diagnostic message is "All endstops triggered" for no candidate,
\* "OK" for exactly one, and for several "Multiple endstops not triggered"
\* followed by the candidates' names in registry order (letter case and the
\* X group's axis word aside).
C12_DiagnosticMessage ==
    (\/ last.op = "describe"
     \/ /\ last.op = "DETECT"
        /\ last.result = "ok"
        /\ Cardinality(OpenEntries(last.readings)) # 1) =>
        LET c == OpenInOrder(last.readings)
            names == {objs[c[i]].name : i \in 1..Len(c)}
        IN  IF Len(c) = 0
            THEN last.msg.text \in {"All endstops triggered",
                                    "All X endstops triggered"}
            ELSE IF Len(c) = 1
            THEN last.msg.text = "OK"
            ELSE /\ last.msg.text \in
                       {"Multiple endstops not triggered: %s",
                        "Multiple X endstops not triggered: %s"}
                 /\ SelectSeq(last.msg.args, LAMBDA a : a \in names)
                       = [i \in 1..Len(c) |-> objs[c[i]].name]

\* The entry an operation hands to set_active_endstop (None to deselect), or
\* -1 when it does not call set_active_endstop.
RequestedTarget(o) ==
    IF o.op = "SET_ACTIVE" /\ o.result = "ok"
    THEN CHOOSE e \in {tool_endstops[i] : i \in 1..Len(tool_endstops)} :
            objs[e].tool = o.arg
    ELSE IF o.op \in {"DETECT", "connect"} /\ o.result = "ok"
    THEN IF Cardinality(OpenEntries(o.readings)) = 1
         THEN CHOOSE e \in OpenEntries(o.readings) : TRUE
         ELSE IF o.op = "DETECT" THEN None ELSE -1
    ELSE -1

\* C13: an activation whose target is already the active one (the second of
\* two calls in a row with the same entry, or with none) changes nothing and
\* does not reach the Router; two calls in a row with the same target invoke
\* the Router's set_active_mcu at most once between them.
C13_ActivationIdempotent ==
    [][ LET t == RequestedTarget(last')
        IN  /\ (t # -1 /\ t = active_endstop) =>
                  /\ last'.calls = 0
                  /\ Activation' = Activation
            /\ (t # -1 /\ RequestedTarget(last) = t) =>
                  last.calls + last'.calls <= 1 ]_vars

C13_Witness ==
    /\ last.op = "SET_ACTIVE"
    /\ last.result = "ok"
    /\ last.calls = 0
    /\ active_endstop # None
    /\ active_tool_number = last.arg

\* A home_wait that follows a forwarded home_start of the same homing move.
MatchingHomeWait ==
    /\ last.op = "home_wait"
    /\ last.started # None

\* C14 as stated: while a forwarded home_start awaits its home_wait the active
\* endstop is the one that received the home_start, and the home_wait is
\* delivered to that same physical endstop.
C14_NoChangeWhileHoming ==
    /\ homing # None => active_mcu = homing
    /\ MatchingHomeWait => last.target = last.started

\* C14: a home_wait is delivered to the endstop that is active when it is
\* called (or fails on on_error when none is); it reaches the physical endstop
\* that received the preceding home_start whenever that endstop is still the
\* active one, which nothing in the core enforces.
C14_HomeWaitFollowsActive ==
    MatchingHomeWait =>
        /\ last.target = active_mcu
        /\ (last.target = None) = (last.result = "command_error")
        /\ active_mcu = last.started =>
              /\ last.target = last.started
              /\ last.result = "ok"

C14_Witness ==
    /\ MatchingHomeWait
    /\ Len(tool_endstops) = 2
    /\ last.target = last.started
    /\ last.result = "ok"

\* C15: a probe in which no query raises sends query_endstop to the physical
\* endstop of every registered entry exactly once, in registry iteration
\* order and whatever is active, and returns exactly the entries that
\* answered not triggered, in that order.
C15_ProbeAll ==
    (ProbeRan(last) /\ last.result = "ok") =>
        /\ last.queried = [i \in 1..Len(tool_endstops) |->
                             objs[tool_endstops[i]].mcu_endstop]
        /\ last.candidates = OpenInOrder(last.readings)

C15_Witness ==
    /\ last.op = "connect"
    /\ last.readings = <<"open", "open">>
    /\ Len(last.candidates) = 2
    /\ Len(last.queried) = 2
    /\ active_endstop = None

\* C16: when a physical endstop's query raises during connect-time detection
\* or DETECT, the operation fails with that error, no endstop is queried
\* again or after it, and the activation state is what it was.
C16_ProbeFailurePropagates ==
    [][ (/\ last'.op \in {"connect", "DETECT"}
         /\ last'.result # "attribute_error"
         /\ \E i \in 1..Len(last'.readings) : last'.readings[i] = "error") =>
          /\ last'.result = "probe_error"
          /\ last'.calls = 0
          /\ Activation' = Activation
          /\ Len(last'.queried) = Cardinality(Answered(last'.readings)) + 1
          /\ \A i \in 1..Len(last'.queried) :
                last'.queried[i] = objs[tool_endstops[i]].mcu_endstop ]_vars

C16_Witness ==
    /\ last.op = "DETECT"
    /\ last.result = "probe_error"
    /\ last.readings = <<"open", "error">>
    /\ active_endstop # None
    /\ active_endstop # tool_endstops[1]

\* The entries of the registry in the order they were registered.
RegistrationOrder ==
    LET S == {tool_endstops[i] : i \in 1..Len(tool_endstops)}
    IN  [i \in 1..Cardinality(S) |->
           CHOOSE e \in S : Cardinality({x \in S : x < e}) = i - 1]

\* C17: the Router's _mcus is exactly the physical endstops of the registry's
\* entries, in registration order, and neither collection ever shrinks.
C17_RouterListsRegistry ==
    /\ [](mcus = [i \in 1..Len(RegistrationOrder) |->
                    objs[RegistrationOrder[i]].mcu_endstop])
    /\ [][ /\ Len(mcus') >= Len(mcus)
           /\ SubSeq(mcus', 1, Len(mcus)) = mcus
           /\ {tool_endstops[i] : i \in 1..Len(tool_endstops)} \subseteq
                 {tool_endstops'[i] : i \in 1..Len(tool_endstops')} ]_vars

C17_Witness ==
    /\ last.op = "register"
    /\ last.result = "config_error"
    /\ tool_endstops = <<1>>
    /\ mcus = <<1>>
    /\ Len(objs) = 2

====
